---- MODULE Spec2Model ----
(***************************************************************************)
(* A model of the DGA compliance checker: the breadth-first crawler of     *)
(* src/utils/webCrawler.js and the rule engine of src/utils/dgaScanner.js. *)
(*                                                                         *)
(* Strings are sequences of tokens.  A token is a run of characters that   *)
(* the code never splits (a scheme, a host, a path segment, a file         *)
(* extension, a query, a fragment), so that string equality, startsWith,   *)
(* endsWith, toLowerCase and URL parsing and serialisation are computed on *)
(* the strings themselves and not assumed.                                 *)
(***************************************************************************)
EXTENDS Integers, Sequences, FiniteSets, TLC

(***************************************************************************)
(* Bounds of the model.                                                    *)
(***************************************************************************)
MaxMaxPages == 4
MaxMaxDepth == 1
MaxAnchors == 2
MaxRules == 3
MaxElements == 2
MaxScanRules == 2
MaxScanElements == 1
MaxUrls == 2
MaxScannedPages == 20
MaxMarkup == 1

VARIABLES
    \* crawlWebsite (webCrawler.js)
    baseUrl,         \* the seed, as the caller gave it (a string)
    maxPages,        \* options.maxPages
    maxDepth,        \* options.maxDepth
    site,            \* the hrefs that occur in the anchors of the crawled site
    discoveredUrls,  \* Set in insertion order: a sequence without repetition
    visitedUrls,     \* Set in insertion order
    queue,           \* array of [url, depth]
    cur,             \* the entry taken by queue.shift() while its fetch is awaited
    pc,              \* "loop" | "fetch" | "done"
    crawlResult,     \* the array the promise resolves to
    progress,        \* the onProgress events, in order
    \* history of the crawl, read by the properties only
    enqueued,        \* every queue entry ever created, in order
    failures,        \* every failed fetch: the url and discoveredUrls at that time
    seenHrefs,       \* the href attributes of the anchors of the pages fetched so far
    iterStart        \* |discoveredUrls| and |queue| at the head of the last iteration

crawlVars == <<baseUrl, maxPages, maxDepth, site, discoveredUrls, visitedUrls,
               queue, cur, pc, crawlResult, progress, enqueued, failures, seenHrefs,
               iterStart>>

VARIABLES
    \* scanDocument and scanUrl (dgaScanner.js)
    dgaRules,        \* the rule catalogue imported from dgaRules.js
    entry,           \* the exported function that was called
    target,          \* the url argument (a string)
    document,        \* what the rules' checks see of the scanned document
    report,          \* the report returned, or resolved to
    spc,             \* "call" | "returned"
    fetched,         \* how the awaits of the last scanUrl settled, "" before
    markup           \* the markup of the scanned document, where the rules are the catalogue's

scanVars == <<dgaRules, entry, target, document, report, spc, fetched, markup>>

VARIABLES
    \* scanMultipleUrls (dgaScanner.js)
    urls,            \* the argument: an array of strings
    scannedCount,    \* also the number of iterations of the for loop done
    allViolations,
    allPassed,
    pageResults,
    scanProgress,    \* the onProgress events, in order
    mpc,             \* "loop" | "await" | "done"
    aggregate        \* the object the promise resolves to

multiVars == <<urls, scannedCount, allViolations, allPassed, pageResults,
               scanProgress, mpc, aggregate>>

VARIABLES
    \* the overall score of scanMultipleUrls, lines 528-530, by itself
    lengths,         \* allPassed.length and allViolations.length
    overall          \* totalChecks and overallScore

scoreVars == <<lengths, overall>>

vars == <<crawlVars, scanVars, multiVars, scoreVars>>

(***************************************************************************)
(* Sequences as strings and as insertion-ordered sets.                     *)
(***************************************************************************)
Range(s) == {s[i] : i \in 1..Len(s)}

SeqsUpTo(S, n) == UNION {[1..k -> S] : k \in 0..n}

has(s, x) == \E i \in 1..Len(s) : s[i] = x

add(s, x) == IF has(s, x) THEN s ELSE Append(s, x)

NoDuplicates(s) == \A i, j \in 1..Len(s) : s[i] = s[j] => i = j

\* The least index of s holding a token of T, Len(s) + 1 when there is none.
FirstIn(s, T) ==
    IF \E i \in 1..Len(s) : s[i] \in T
    THEN CHOOSE i \in 1..Len(s) : s[i] \in T /\ \A j \in 1..(i - 1) : s[j] \notin T
    ELSE Len(s) + 1

(***************************************************************************)
(* Tokens.                                                                 *)
(***************************************************************************)
SpecialSchemes == {"http:", "https:"}
OtherSchemes == {"mailto:", "tel:", "javascript:", "MAILTO:"}
HostTokens == {"a.example", "A.EXAMPLE", "b.example", "www.gaft.gov.sa"}
PortTokens == {":80", ":443", ":8443"}
QueryTokens == {"?v=1", "?f=x"}
FragmentTokens == {"#", "#foo", "#bar"}
QuoteTokens == {"'", "\""}
SpaceTokens == {" "}

\* String.prototype.toLowerCase, token by token.
LowerToken(t) ==
    CASE t = ".PDF" -> ".pdf"
      [] t = ".Js" -> ".js"
      [] t = "A.EXAMPLE" -> "a.example"
      [] t = "MAILTO:" -> "mailto:"
      [] t = "Arabic" -> "arabic"
      [] OTHER -> t

toLowerCase(s) == [i \in 1..Len(s) |-> LowerToken(s[i])]

startsWith(s, t) == Len(s) > 0 /\ s[1] = t

endsWith(s, t) == Len(s) > 0 /\ s[Len(s)] = t

RECURSIVE trim(_)
trim(s) ==
    IF s = <<>> THEN s
    ELSE IF s[1] \in SpaceTokens THEN trim(Tail(s))
    ELSE IF s[Len(s)] \in SpaceTokens THEN trim(SubSeq(s, 1, Len(s) - 1))
    ELSE s

\* href.replace(/['"]/g, '').trim()
IsNotQuote(t) == t \notin QuoteTokens
cleanHref(href) == trim(SelectSeq(href, IsNotQuote))

(***************************************************************************)
(* The URL class: parsing, origin, hash setter, serialisation.             *)
(***************************************************************************)
NoURL == [scheme |-> "invalid", host |-> "", port |-> "", path |-> <<>>,
          query |-> <<>>, hash |-> <<>>]

DefaultPort(scheme) == IF scheme = "https:" THEN ":443" ELSE ":80"

\* path, query and fragment of the part of a URL string that follows the authority
PathOf(t) == SubSeq(t, 1, FirstIn(t, QueryTokens \cup FragmentTokens) - 1)
QueryOf(t) == SubSeq(t, FirstIn(t, QueryTokens \cup FragmentTokens), FirstIn(t, FragmentTokens) - 1)
HashOf(t) == SubSeq(t, FirstIn(t, FragmentTokens), Len(t))

\* new URL(s, base); base is a parsed URL, or NoURL for new URL(s).
\* A result of NoURL stands for the TypeError the constructor throws.
ParseURL(s, base) ==
    IF s = <<>> THEN base
    ELSE IF s[1] \in SpecialSchemes THEN
        IF Len(s) >= 3 /\ s[2] = "//" /\ s[3] \in HostTokens
        THEN LET hasPort == Len(s) >= 4 /\ s[4] \in PortTokens
                 rest == SubSeq(s, IF hasPort THEN 5 ELSE 4, Len(s))
             IN  [scheme |-> s[1],
                  host |-> LowerToken(s[3]),
                  port |-> IF hasPort /\ s[4] # DefaultPort(s[1]) THEN s[4] ELSE "",
                  path |-> IF PathOf(rest) = <<>> THEN <<"/">> ELSE PathOf(rest),
                  query |-> QueryOf(rest),
                  hash |-> HashOf(rest)]
        ELSE NoURL
    ELSE IF s[1] \in OtherSchemes THEN
        [scheme |-> LowerToken(s[1]), host |-> "", port |-> "", path |-> Tail(s),
         query |-> <<>>, hash |-> <<>>]
    ELSE IF base = NoURL THEN NoURL
    ELSE IF s[1] \in FragmentTokens THEN [base EXCEPT !.hash = s]
    ELSE IF s[1] \in QueryTokens THEN [base EXCEPT !.query = QueryOf(s), !.hash = HashOf(s)]
    ELSE [base EXCEPT !.path = PathOf(s), !.query = QueryOf(s), !.hash = HashOf(s)]

\* URL.prototype.origin
origin(u) ==
    IF u.scheme \in SpecialSchemes
    THEN <<u.scheme, "//", u.host>> \o (IF u.port = "" THEN <<>> ELSE <<u.port>>)
    ELSE <<"null">>

\* URL.prototype.toString
toString(u) ==
    IF u.scheme \in SpecialSchemes
    THEN origin(u) \o u.path \o u.query \o u.hash
    ELSE <<u.scheme>> \o u.path \o u.query \o u.hash

(***************************************************************************)
(* isNonPageResource and extractLinks.                                     *)
(***************************************************************************)
nonPageExtensions == <<".jpg", ".jpeg", ".png", ".gif", ".svg", ".webp",
                       ".pdf", ".doc", ".docx", ".xls", ".xlsx",
                       ".zip", ".tar", ".gz",
                       ".mp3", ".mp4", ".avi", ".mov",
                       ".css", ".js", ".json", ".xml">>

isNonPageResource(url) ==
    LET urlLower == toLowerCase(url)
    IN  \E i \in 1..Len(nonPageExtensions) : endsWith(urlLower, nonPageExtensions[i])

\* if (absoluteUrl.origin !== baseOrigin) return;
sameHostname(absoluteUrl, baseOrigin) == absoluteUrl.host = baseOrigin[3]
isInternal(absoluteUrl, baseOrigin) == origin(absoluteUrl) = baseOrigin

\* absoluteUrl.hash = ''
keepHash(u) == u
withoutHash(u) == [u EXCEPT !.hash = <<>>]

\* The body of anchors.forEach for one anchor: the link it contributes, as a
\* sequence of zero or one strings.
linkOfAnchor(rawHref, currentUrl, baseOrigin) ==
    LET href == cleanHref(rawHref)
        absoluteUrl == ParseURL(href, ParseURL(currentUrl, NoURL))
        normalizedUrl == toString(withoutHash(absoluteUrl))
    IN  IF rawHref = <<>> THEN <<>>
        ELSE IF href = <<>> \/ startsWith(href, "mailto:") \/ startsWith(href, "tel:")
                \/ startsWith(href, "javascript:") \/ href = <<"#">> THEN <<>>
        ELSE IF absoluteUrl = NoURL THEN <<>>
        ELSE IF ~isInternal(absoluteUrl, baseOrigin) THEN <<>>
        ELSE IF isNonPageResource(normalizedUrl) THEN <<>>
        ELSE <<normalizedUrl>>

RECURSIVE extractLinksFrom(_, _, _, _)
extractLinksFrom(anchors, currentUrl, baseOrigin, links) ==
    IF anchors = <<>> THEN links
    ELSE LET l == linkOfAnchor(Head(anchors), currentUrl, baseOrigin)
         IN  extractLinksFrom(Tail(anchors), currentUrl, baseOrigin,
                              IF l = <<>> THEN links ELSE add(links, l[1]))

extractLinks(anchors, currentUrl, baseOrigin) ==
    extractLinksFrom(anchors, currentUrl, baseOrigin, <<>>)

(***************************************************************************)
(* The inputs of a crawl: the seed, and the hrefs of the site's anchors.   *)
(***************************************************************************)
Seeds == {<<"https:", "//", "a.example">>,
          <<"https:", "//", "a.example", "/p">>,
          <<"https:", "//", "a.example", "/p", "#foo">>}

\* Each site draws the href attributes of its anchors from one of these sets.
OriginHrefs == {<<"/q">>,
                <<"https:", "//", "b.example", "/q">>,
                <<"http:", "//", "a.example", "/q">>,
                <<"https:", "//", "a.example", ":8443", "/q">>}
PortHrefs == {<<"/p">>,
              <<"https:", "//", "A.EXAMPLE", ":443", "/q">>,
              <<"https:", "//", "b.example", ":443", "/p">>,
              <<"MAILTO:", "x">>}
ExtensionHrefs == {<<"/q">>,
                   <<"/doc", ".pdf">>,
                   <<"/doc", ".PDF">>,
                   <<"/doc", ".pdf", "?v=1">>}
QueryHrefs == {<<"/p">>,
               <<"/doc", ".Js", "#foo">>,
               <<"/q", "?f=x", ".pdf">>,
               <<"https:", "//", "b.example", "/doc", ".pdf", "?v=1">>}
FragmentHrefs == {<<"/p", "#foo">>,
                  <<"/p", "#bar">>,
                  <<"/q">>,
                  <<"#foo">>}
QuotedHrefs == {<<"#">>,
                <<"\"", "/q", "#bar", "\"">>,
                <<" ", "/q", " ">>,
                <<"/p", "/q">>}
SkippedHrefs == {<<"/p">>,
                 <<>>,
                 <<"mailto:", "x">>,
                 <<"tel:", "1">>}
InvalidHrefs == {<<"/q">>,
                 <<"javascript:", "x">>,
                 <<"https:", "//">>,
                 <<"'", " ", "'">>}
Sites == {OriginHrefs, PortHrefs, ExtensionHrefs, QueryHrefs, FragmentHrefs,
          QuotedHrefs, SkippedHrefs, InvalidHrefs}

NoEntry == [url |-> <<>>, depth |-> 0]

NoAggregate == [score |-> 0, status |-> "", violations |-> <<>>, passed |-> <<>>,
                totalChecks |-> 0, pageResults |-> <<>>, totalPages |-> 0,
                pagesWithViolations |-> 0, totalViolationsBeforeDedup |-> 0]

NoMarkup == [lang |-> "", dir |-> "", elements |-> {}]

NoLengths == [passed |-> 0, violations |-> 0]

NoOverall == [totalChecks |-> 0, overallScore |-> 0, computed |-> FALSE]

NoReport == [error |-> "", score |-> 0, violations |-> <<>>, passed |-> <<>>,
             totalChecks |-> 0, pageUrl |-> <<>>]

(***************************************************************************)
(* crawlWebsite.                                                           *)
(***************************************************************************)
baseOrigin == origin(ParseURL(baseUrl, NoURL))

Init ==
    /\ baseUrl \in Seeds
    /\ maxPages \in 0..MaxMaxPages
    /\ maxDepth \in 0..MaxMaxDepth
    /\ site \in Sites
    /\ discoveredUrls = <<baseUrl>>
    /\ visitedUrls = <<>>
    /\ queue = <<[url |-> baseUrl, depth |-> 0]>>
    /\ cur = NoEntry
    /\ pc = "loop"
    /\ crawlResult = <<>>
    /\ progress = <<>>
    /\ enqueued = <<[url |-> baseUrl, depth |-> 0]>>
    /\ failures = <<>>
    /\ seenHrefs = {}
    /\ iterStart = [discovered |-> 0, queue |-> 0]
    \* the rule engine is not called
    /\ dgaRules = <<>> /\ entry = "none" /\ target = <<>> /\ document = <<>>
    /\ report = NoReport /\ spc = "idle" /\ fetched = "" /\ markup = NoMarkup
    /\ urls = <<>> /\ scannedCount = 0 /\ allViolations = <<>> /\ allPassed = <<>>
    /\ pageResults = <<>> /\ scanProgress = <<>> /\ mpc = "idle"
    /\ aggregate = NoAggregate
    /\ lengths = NoLengths /\ overall = NoOverall

\* while (queue.length > 0 && discoveredUrls.size < maxPages)
loopCondition == Len(queue) > 0 /\ Len(discoveredUrls) < maxPages

\* if (visitedUrls.has(url) || depth > maxDepth) continue;
skipNoDepth(url, depth) == has(visitedUrls, url)
skipEntry(url, depth) == has(visitedUrls, url) \/ depth > maxDepth

atLoopHead == [discovered |-> Len(discoveredUrls), queue |-> Len(queue)]

\* An iteration that takes the continue of line 37.
SkipNoShift ==
    /\ pc = "loop" /\ loopCondition
    /\ skipEntry(Head(queue).url, Head(queue).depth)
    /\ iterStart' = atLoopHead
    /\ UNCHANGED <<baseUrl, maxPages, maxDepth, site, discoveredUrls, visitedUrls,
                   queue, cur, pc, crawlResult, progress, enqueued, failures, seenHrefs>>
    /\ UNCHANGED <<scanVars, multiVars, scoreVars>>
Skip ==
    /\ pc = "loop" /\ loopCondition
    /\ skipEntry(Head(queue).url, Head(queue).depth)
    /\ queue' = Tail(queue)
    /\ iterStart' = atLoopHead
    /\ UNCHANGED <<baseUrl, maxPages, maxDepth, site, discoveredUrls, visitedUrls,
                   cur, pc, crawlResult, progress, enqueued, failures, seenHrefs>>
    /\ UNCHANGED <<scanVars, multiVars, scoreVars>>

\* An iteration that takes the last entry of the queue (pop) instead of the
\* first (shift).
VisitLast ==
    /\ pc = "loop" /\ loopCondition
    /\ ~skipEntry(queue[Len(queue)].url, queue[Len(queue)].depth)
    /\ cur' = queue[Len(queue)]
    /\ queue' = SubSeq(queue, 1, Len(queue) - 1)
    /\ visitedUrls' = add(visitedUrls, queue[Len(queue)].url)
    /\ progress' = Append(progress, [discovered |-> Len(discoveredUrls),
                                     visited |-> Len(visitedUrls'),
                                     currentUrl |-> queue[Len(queue)].url,
                                     completed |-> FALSE])
    /\ iterStart' = atLoopHead
    /\ pc' = "fetch"
    /\ UNCHANGED <<baseUrl, maxPages, maxDepth, site, discoveredUrls, crawlResult,
                   enqueued, failures, seenHrefs>>
    /\ UNCHANGED <<scanVars, multiVars, scoreVars>>
\* An iteration up to the await of fetch: lines 33-56.
Visit ==
    /\ pc = "loop" /\ loopCondition
    /\ ~skipEntry(Head(queue).url, Head(queue).depth)
    /\ cur' = Head(queue)
    /\ queue' = Tail(queue)
    /\ visitedUrls' = add(visitedUrls, Head(queue).url)
    /\ progress' = Append(progress, [discovered |-> Len(discoveredUrls),
                                     visited |-> Len(visitedUrls'),
                                     currentUrl |-> Head(queue).url,
                                     completed |-> FALSE])
    /\ iterStart' = atLoopHead
    /\ pc' = "fetch"
    /\ UNCHANGED <<baseUrl, maxPages, maxDepth, site, discoveredUrls, crawlResult,
                   enqueued, failures, seenHrefs>>
    /\ UNCHANGED <<scanVars, multiVars, scoreVars>>

\* The fetch resolved with a status that is not OK: warn and continue (lines 58-61).
FetchNotOkAborts ==
    /\ pc = "fetch"
    /\ failures' = Append(failures, [url |-> cur.url, kind |-> "status",
                                    discovered |-> discoveredUrls])
    /\ pc' = "done"
    /\ crawlResult' = <<>>
    /\ cur' = NoEntry
    /\ UNCHANGED <<baseUrl, maxPages, maxDepth, site, discoveredUrls, visitedUrls,
                   queue, progress, enqueued, seenHrefs, iterStart>>
    /\ UNCHANGED <<scanVars, multiVars, scoreVars>>
FetchNotOk ==
    /\ pc = "fetch"
    /\ failures' = Append(failures, [url |-> cur.url, kind |-> "status",
                                    discovered |-> discoveredUrls])
    /\ pc' = "loop"
    /\ cur' = NoEntry
    /\ UNCHANGED <<baseUrl, maxPages, maxDepth, site, discoveredUrls, visitedUrls,
                   queue, crawlResult, progress, enqueued, seenHrefs, iterStart>>
    /\ UNCHANGED <<scanVars, multiVars, scoreVars>>

\* fetch or response.text() rejected: the catch of lines 75-77 logs the error.
FetchError ==
    /\ pc = "fetch"
    /\ failures' = Append(failures, [url |-> cur.url, kind |-> "error",
                                    discovered |-> discoveredUrls])
    /\ pc' = "loop"
    /\ cur' = NoEntry
    /\ UNCHANGED <<baseUrl, maxPages, maxDepth, site, discoveredUrls, visitedUrls,
                   queue, crawlResult, progress, enqueued, seenHrefs, iterStart>>
    /\ UNCHANGED <<scanVars, multiVars, scoreVars>>

\* The loop over the links without discoveredUrls.add: every link is pushed,
\* none is recorded.
RECURSIVE addLinksUnrecorded(_, _, _, _)
addLinksUnrecorded(links, depth, d, q) ==
    IF links = <<>> THEN [d |-> d, q |-> q]
    ELSE addLinksUnrecorded(Tail(links), depth, d,
                            Append(q, [url |-> Head(links), depth |-> depth + 1]))

\* The loop over the links without the test discoveredUrls.has(link): every
\* link is pushed while there is room, discovered before or not.
RECURSIVE addLinksUnchecked(_, _, _, _)
addLinksUnchecked(links, depth, d, q) ==
    IF links = <<>> THEN [d |-> d, q |-> q]
    ELSE IF Len(d) < maxPages
         THEN addLinksUnchecked(Tail(links), depth, add(d, Head(links)),
                                Append(q, [url |-> Head(links), depth |-> depth + 1]))
         ELSE addLinksUnchecked(Tail(links), depth, d, q)

\* for (const link of links): lines 69-74, from the state [d, q].
RECURSIVE addLinks(_, _, _, _)
addLinks(links, depth, d, q) ==
    IF links = <<>> THEN [d |-> d, q |-> q]
    ELSE IF ~has(d, Head(links)) /\ Len(d) < maxPages
         THEN addLinks(Tail(links), depth, Append(d, Head(links)),
                       Append(q, [url |-> Head(links), depth |-> depth + 1]))
         ELSE addLinks(Tail(links), depth, d, q)

\* The fetch resolved OK with a page holding the given anchors: lines 63-74.
FetchOk ==
    /\ pc = "fetch"
    /\ \E anchors \in SeqsUpTo(site, MaxAnchors) :
         LET links == extractLinks(anchors, cur.url, baseOrigin)
             r == addLinks(links, cur.depth, discoveredUrls, queue)
         IN  /\ discoveredUrls' = r.d
             /\ queue' = r.q
             /\ enqueued' = enqueued \o SubSeq(r.q, Len(queue) + 1, Len(r.q))
             /\ seenHrefs' = seenHrefs \cup Range(anchors)
    /\ pc' = "loop"
    /\ cur' = NoEntry
    /\ UNCHANGED <<baseUrl, maxPages, maxDepth, site, visitedUrls, crawlResult,
                   progress, failures, iterStart>>
    /\ UNCHANGED <<scanVars, multiVars, scoreVars>>

\* The loop condition is false: lines 80-86.
Return ==
    /\ pc = "loop" /\ ~loopCondition
    /\ progress' = Append(progress, [discovered |-> Len(discoveredUrls),
                                     visited |-> Len(visitedUrls),
                                     currentUrl |-> <<>>,
                                     completed |-> TRUE])
    /\ crawlResult' = discoveredUrls
    /\ pc' = "done"
    /\ UNCHANGED <<baseUrl, maxPages, maxDepth, site, discoveredUrls, visitedUrls,
                   queue, cur, enqueued, failures, seenHrefs, iterStart>>
    /\ UNCHANGED <<scanVars, multiVars, scoreVars>>

(***************************************************************************)
(* The rule catalogue and the documents.                                   *)
(*                                                                         *)
(* A rule is its id, its type and the checks it carries: kind "global" for *)
(* a globalCheck, "selector" for a selector with a check, "none" for       *)
(* neither.  The catalogue is data handed to the engine: the model takes   *)
(* every catalogue of at most MaxRules rules, ids in catalogue order.      *)
(*                                                                         *)
(* A document is what the checks see of it: document[i] is, for a global   *)
(* rule, the one value globalCheck(doc) produces, and for a selector rule  *)
(* the values check(element) produces on the elements the selector         *)
(* matches, in document order.                                             *)
(***************************************************************************)
RuleShapes == {[type |-> "automated", kind |-> "global"],
               [type |-> "automated", kind |-> "selector"],
               [type |-> "automated", kind |-> "none"],
               [type |-> "manual", kind |-> "none"],
               [type |-> "manual", kind |-> "global"]}

\* description of the first rules of the catalogue; no two rules share one.
Descriptions == <<"Ensure application of DGA Design System v1.0 (Platform Code).",
                  "Ensure use of approved colors and Color Design Tokens.",
                  "Ensure use of approved fonts and Typography Design Tokens.",
                  "Ensure application of spacing units and Global Spacing Design Tokens.",
                  "Ensure design adapts effectively to different screen sizes.">>

Catalogues ==
    {[i \in 1..Len(shapes) |-> [id |-> i, description |-> Descriptions[i],
                                type |-> shapes[i].type, kind |-> shapes[i].kind]] :
        shapes \in SeqsUpTo(RuleShapes, MaxRules)}

\* What a check produces: a boolean, an object with a passed field, an object
\* without one (an Element, say), null, or an exception.
CheckResults == {"true", "false", "passedObject", "failedObject", "element", "null", "throws"}

\* The element checks of the catalogue return booleans; the engine also takes
\* an object with a reason, and catches an exception.
ElementResults == {"true", "false", "failedObject", "throws"}

RECURSIVE ResultSeqs(_)
ResultSeqs(n) ==
    IF n = 0 THEN {<<>>}
    ELSE {<<>>} \cup {<<r>> \o t : r \in ElementResults, t \in ResultSeqs(n - 1)}

\* The documents with at most n matched elements, for the rules from i on.
\* The engine never runs the check of a manual rule, so one value stands for
\* what it would produce.
RECURSIVE DocsFrom(_, _, _)
DocsFrom(rules, i, n) ==
    IF i > Len(rules) THEN {<<>>}
    ELSE IF rules[i].kind = "global" /\ rules[i].type = "manual"
         THEN {<<<<"true">>>> \o d : d \in DocsFrom(rules, i + 1, n)}
    ELSE IF rules[i].kind = "global"
         THEN {<<<<r>>>> \o d : r \in CheckResults, d \in DocsFrom(rules, i + 1, n)}
    ELSE IF rules[i].kind = "selector"
         THEN UNION {{<<els>> \o d : d \in DocsFrom(rules, i + 1, n - Len(els))} :
                        els \in ResultSeqs(n)}
    ELSE {<<<<>>>> \o d : d \in DocsFrom(rules, i + 1, n)}

Documents(rules) == DocsFrom(rules, 1, MaxElements)

(***************************************************************************)
(* scanDocument.                                                           *)
(***************************************************************************)
\* typeof checkResult === 'boolean' ? checkResult : checkResult?.passed, as a truth value
passedOf(checkResult) == checkResult \in {"true", "passedObject"}

\* typeof checkResult === 'object'
isObject(checkResult) == checkResult \in {"passedObject", "failedObject", "element", "null"}

\* checkResult.reason, checkResult.howToFix: "given", or "" for undefined; reading
\* them from null throws a TypeError.
reasonOf(checkResult) == IF checkResult = "failedObject" THEN "given" ELSE ""

Violation(rule, pageUrl, preview, violationReason, howToFix) ==
    [id |-> rule.id, description |-> rule.description, type |-> rule.type,
     pageUrl |-> pageUrl, preview |-> preview,
     violationReason |-> violationReason, howToFix |-> howToFix]

PassedCheck(rule) == [id |-> rule.id, description |-> rule.description, type |-> rule.type]

\* violationReason || `Rule #${rule.id} check failed`
orDefault(text) == IF text = "" THEN "default" ELSE text

\* if (rule.type === 'manual') return;
neverManual(rule) == FALSE
isManual(rule) == rule.type = "manual"

\* The global branch with a catch that only logs: a globalCheck that throws
\* leaves no entry.
globalBranchLogOnly(rule, checkResult, pageUrl, acc) ==
    IF checkResult = "throws" \/ (~passedOf(checkResult) /\ checkResult = "null")
    THEN acc
    ELSE IF ~passedOf(checkResult)
    THEN [acc EXCEPT !.violations =
            Append(@, Violation(rule, pageUrl, "document",
                                orDefault(IF isObject(checkResult) THEN reasonOf(checkResult) ELSE ""),
                                orDefault(IF isObject(checkResult) THEN reasonOf(checkResult) ELSE "")))]
    ELSE [acc EXCEPT !.passed = Append(@, PassedCheck(rule))]

\* The global branch, lines 281-328, appended to acc = [violations, passed].
globalBranch(rule, checkResult, pageUrl, acc) ==
    IF checkResult = "throws" \/ (~passedOf(checkResult) /\ checkResult = "null")
    THEN [acc EXCEPT !.violations =
            Append(@, Violation(rule, pageUrl, "error", "error", "review"))]
    ELSE IF ~passedOf(checkResult)
    THEN [acc EXCEPT !.violations =
            Append(@, Violation(rule, pageUrl, "document",
                                orDefault(IF isObject(checkResult) THEN reasonOf(checkResult) ELSE ""),
                                orDefault(IF isObject(checkResult) THEN reasonOf(checkResult) ELSE "")))]
    ELSE [acc EXCEPT !.passed = Append(@, PassedCheck(rule))]

\* catch (e) { console.error(...); allPass = false; } of lines 357-360
ignoreElementError(st) == st
catchElementError(st) == [st EXCEPT !.allPass = FALSE]

\* elements.forEach, lines 338-361, from the state
\* st = [allPass, preview, violationReason, howToFix]; k is the element's place.
RECURSIVE forEachElement(_, _, _)
forEachElement(elements, k, st) ==
    IF k > Len(elements) THEN st
    ELSE LET checkResult == elements[k]
             failed == [st EXCEPT !.allPass = FALSE]
             previewed == [failed EXCEPT !.preview = IF @ = "" THEN "element" ELSE @,
                                         !.element = IF st.preview = "" THEN k ELSE @]
         IN  forEachElement(elements, k + 1,
                 IF checkResult = "throws" THEN catchElementError(st)
                 ELSE IF passedOf(checkResult) THEN st
                 ELSE IF checkResult = "null" THEN previewed
                 ELSE IF isObject(checkResult)
                      THEN [previewed EXCEPT
                              !.violationReason = IF @ = "" THEN reasonOf(checkResult) ELSE @,
                              !.howToFix = IF @ = "" THEN reasonOf(checkResult) ELSE @]
                 ELSE previewed)

\* else { allPass = true } of lines 362-366: no element matches the selector.
vacuousFail == FALSE
vacuousPass == TRUE

\* The selector branch, lines 329-389.
selectorBranch(rule, elements, pageUrl, acc) ==
    LET start == [allPass |-> TRUE, preview |-> "", element |-> 0,
                  violationReason |-> "", howToFix |-> ""]
        st == IF Len(elements) > 0 THEN forEachElement(elements, 1, start)
              ELSE [start EXCEPT !.allPass = vacuousPass]
    IN  IF ~st.allPass
        THEN [acc EXCEPT !.violations =
                Append(@, Violation(rule, pageUrl,
                                    <<IF st.preview = "" THEN "null" ELSE st.preview, st.element>>,
                                    orDefault(st.violationReason), orDefault(st.howToFix)))]
        ELSE [acc EXCEPT !.passed = Append(@, PassedCheck(rule))]

\* The callback of dgaRules.forEach, lines 273-391.
evalRule(rule, seen, pageUrl, acc) ==
    IF isManual(rule) THEN acc
    ELSE IF rule.kind = "global" THEN globalBranch(rule, seen[1], pageUrl, acc)
    ELSE IF rule.kind = "selector" THEN selectorBranch(rule, seen, pageUrl, acc)
    ELSE acc

RECURSIVE forEachRule(_, _, _, _)
forEachRule(i, doc, pageUrl, acc) ==
    IF i > Len(dgaRules) THEN acc
    ELSE forEachRule(i + 1, doc, pageUrl, evalRule(dgaRules[i], doc[i], pageUrl, acc))

(***************************************************************************)
(* Math.round((passed.length / totalAutomated) * 100) in the Numbers of    *)
(* the language: IEEE 754 doubles, every operation rounded to the nearest  *)
(* double, ties to even.  A positive double is [m, s]: a significand m of  *)
(* Precision bits, most significant first, and the value m * 2^(-s).       *)
(***************************************************************************)
Precision == 53

\* Bits are produced and consumed Chunk at a time, in the integers at hand.
Chunk == (Precision - 1) \div 4

RECURSIVE toBits(_)
toBits(n) == IF n = 0 THEN <<>> ELSE toBits(n \div 2) \o <<n % 2>>

RECURSIVE toInt(_)
toInt(bits) == IF bits = <<>> THEN 0 ELSE 2 * toInt(SubSeq(bits, 1, Len(bits) - 1)) + bits[Len(bits)]

RECURSIVE power2(_)
power2(e) == IF e = 0 THEN 1 ELSE 2 * power2(e - 1)

\* n in k bits
padded(n, k) == [i \in 1..(k - Len(toBits(n))) |-> 0] \o toBits(n)

\* bits + 1 in the same length, for bits that are not all ones
increment(bits) ==
    LET j == CHOOSE k \in 1..Len(bits) : bits[k] = 0 /\ \A l \in (k + 1)..Len(bits) : bits[l] = 1
    IN  [k \in 1..Len(bits) |-> IF k < j THEN bits[k] ELSE IF k = j THEN 1 ELSE 0]

\* The significand bits with the scale s, rounded to nearest, ties to even;
\* rest is how the discarded part compares with half a unit of the last bit.
roundToNearest(bits, s, rest) ==
    IF rest = "above" \/ (rest = "half" /\ bits[Len(bits)] = 1)
    THEN IF \A k \in 1..Len(bits) : bits[k] = 1
         THEN [m |-> [k \in 1..Len(bits) |-> IF k = 1 THEN 1 ELSE 0], s |-> s - 1]
         ELSE [m |-> increment(bits), s |-> s]
    ELSE [m |-> bits, s |-> s]

\* The least e with p * 2^e >= t.
RECURSIVE leadShift(_, _)
leadShift(p, t) == IF p >= t THEN 0 ELSE 1 + leadShift(2 * p, t)

\* Long division: the next n bits of r / t for r < t, n a multiple of Chunk,
\* and the remainder they leave.
RECURSIVE quotientBits(_, _, _)
quotientBits(r, t, n) ==
    IF n = 0 THEN <<>>
    ELSE padded((r * power2(Chunk)) \div t, Chunk)
            \o quotientBits((r * power2(Chunk)) % t, t, n - Chunk)

RECURSIVE remainderAfter(_, _, _)
remainderAfter(r, t, n) ==
    IF n = 0 THEN r ELSE remainderAfter((r * power2(Chunk)) % t, t, n - Chunk)

\* p / t for 0 < p <= t: the leading bit, then Precision - 1 more.
divide(p, t) ==
    LET e == leadShift(p, t)
        r == p * power2(e) - t
        left == remainderAfter(r, t, Precision - 1)
    IN  roundToNearest(<<1>> \o quotientBits(r, t, Precision - 1), e + Precision - 1,
                       IF 2 * left > t THEN "above" ELSE IF 2 * left = t THEN "half" ELSE "below")

\* bits * c + carry as bits, Chunk bits at a time from the right
RECURSIVE timesFrom(_, _, _)
timesFrom(bits, c, carry) ==
    IF Len(bits) <= Chunk THEN toBits(toInt(bits) * c + carry)
    ELSE LET low == toInt(SubSeq(bits, Len(bits) - Chunk + 1, Len(bits))) * c + carry
         IN  timesFrom(SubSeq(bits, 1, Len(bits) - Chunk), c, low \div power2(Chunk))
                \o padded(low % power2(Chunk), Chunk)

\* x * c for a positive integer c
times(x, c) ==
    LET product == timesFrom(x.m, c, 0)
        dropped == SubSeq(product, Precision + 1, Len(product))
    IN  roundToNearest(SubSeq(product, 1, Precision), x.s - Len(dropped),
                       IF dropped = <<>> \/ dropped[1] = 0 THEN "below"
                       ELSE IF \E k \in 2..Len(dropped) : dropped[k] = 1 THEN "above"
                       ELSE "half")

\* Math.round(x): the nearest integer, a half goes up.
MathRound(x) ==
    LET n == Len(x.m) - x.s   \* the number of bits before the point
    IN  IF n < 0 THEN 0
        ELSE toInt(SubSeq(x.m, 1, n)) + x.m[n + 1]

\* The rules of the catalogue that are automated and carry a check: each adds
\* one entry to the report of a page that was fetched and parsed.
ChecksPerPage == 46

\* The totals of checks that occur: those of the catalogues and documents
\* drawn here, and those of up to MaxScannedPages pages of the catalogue.
Totals ==
    (1..(MaxRules * MaxUrls + MaxUrls * MaxScanRules))
        \cup {ChecksPerPage * k : k \in 1..MaxScannedPages}

\* The scores of p passed checks out of total, computed once.
percentTable ==
    [total \in Totals |->
        [p \in 0..total |-> IF p = 0 THEN 0 ELSE MathRound(times(divide(p, total), 100))]]

flooredPercent(p, total) == (100 * p) \div total
roundedPercent(p, total) == percentTable[total][p]

\* The score with 0, not 100, when nothing was checked.
scoreOrZero(p, v) == IF p + v > 0 THEN roundedPercent(p, p + v) ELSE 0

\* Lines 393-395.
scoreOf(p, v) == IF p + v > 0 THEN roundedPercent(p, p + v) ELSE 100

\* pageUrl || (typeof window !== 'undefined' && window.location.href) || ''
windowLocation == <<"https:", "//", "a.example", "/">>
pageUrlOr(pageUrl) == IF pageUrl = <<>> THEN windowLocation ELSE pageUrl

scanDocument(doc, pageUrl) ==
    LET acc == forEachRule(1, doc, pageUrlOr(pageUrl),
                           [violations |-> <<>>, passed |-> <<>>])
    IN  [error |-> "",
         score |-> scoreOf(Len(acc.passed), Len(acc.violations)),
         violations |-> acc.violations,
         passed |-> acc.passed,
         totalChecks |-> Len(acc.violations) + Len(acc.passed),
         pageUrl |-> pageUrlOr(pageUrl)]

(***************************************************************************)
(* scanUrl.                                                                *)
(***************************************************************************)
\* The catch of lines 458-467.
errorReportScored(url, message) ==
    [error |-> message, score |-> 100, violations |-> <<>>, passed |-> <<>>,
     totalChecks |-> 0, pageUrl |-> url]
errorReport(url, message) ==
    [error |-> message, score |-> 0, violations |-> <<>>, passed |-> <<>>,
     totalChecks |-> 0, pageUrl |-> url]

\* How the awaits of scanUrl can settle for a URL that parses.
Responses(rules) ==
    {[kind |-> k, doc |-> <<>>] : k \in {"rejected", "notOk", "parseError"}}
        \cup {[kind |-> "ok", doc |-> d] : d \in Documents(rules)}

\* Lines 409-468, given how fetch, response.text() and the parser settle.
scanUrl(url, response) ==
    IF ParseURL(url, NoURL) = NoURL THEN errorReport(url, "Invalid URL")
    ELSE IF response.kind = "rejected" THEN errorReport(url, "fetch failed")
    ELSE IF response.kind = "notOk" THEN errorReport(url, "Failed to fetch the URL")
    ELSE IF response.kind = "parseError"
         THEN errorReport(url, "DOMParser not available and JSDOM failed")
    ELSE scanDocument(response.doc, url)

Targets == {<<"https:", "//", "a.example", "/p">>, <<"a.example">>}

\* The page calls scanDocument(document) on its own document, or scanUrl(url).
ScanInit ==
    /\ dgaRules \in Catalogues
    /\ entry \in {"scanDocument", "scanUrl"}
    /\ target \in (IF entry = "scanDocument" THEN {<<>>} ELSE Targets)
    /\ document = <<>>
    /\ report = NoReport
    /\ spc = "call"
    /\ fetched = "" /\ markup = NoMarkup
    \* no crawl is running
    /\ baseUrl = <<>> /\ maxPages = 0 /\ maxDepth = 0 /\ site = {}
    /\ discoveredUrls = <<>> /\ visitedUrls = <<>> /\ queue = <<>>
    /\ cur = NoEntry /\ pc = "idle" /\ crawlResult = <<>> /\ progress = <<>>
    /\ enqueued = <<>> /\ failures = <<>> /\ seenHrefs = {}
    /\ iterStart = [discovered |-> 0, queue |-> 0]
    \* no multi-page scan is running
    /\ urls = <<>> /\ scannedCount = 0 /\ allViolations = <<>> /\ allPassed = <<>>
    /\ pageResults = <<>> /\ scanProgress = <<>> /\ mpc = "idle"
    /\ aggregate = NoAggregate
    /\ lengths = NoLengths /\ overall = NoOverall

CallScanDocument ==
    /\ spc = "call" /\ entry = "scanDocument"
    /\ \E doc \in Documents(dgaRules) :
         /\ document' = doc
         /\ report' = scanDocument(doc, target)
    /\ spc' = "returned"
    /\ UNCHANGED <<dgaRules, entry, target, fetched, markup>>
    /\ UNCHANGED <<crawlVars, multiVars, scoreVars>>

CallScanUrl ==
    /\ spc = "call" /\ entry = "scanUrl"
    /\ \E response \in Responses(dgaRules) :
         /\ report' = scanUrl(target, response)
         /\ document' = IF report'.error = "" THEN response.doc ELSE <<>>
         /\ fetched' = response.kind
    /\ spc' = "returned"
    /\ UNCHANGED <<dgaRules, entry, target, markup>>
    /\ UNCHANGED <<crawlVars, multiVars, scoreVars>>

(***************************************************************************)
(* scanMultipleUrls.                                                       *)
(***************************************************************************)
PageUrls == {<<"https:", "//", "a.example", "/p">>, <<"https:", "//", "a.example", "/q">>}

\* The catalogues and the pages of a multi-page scan: at most MaxScanRules
\* rules, every automated rule with a check as in the catalogue, and documents
\* of at most MaxScanElements matched elements whose checks return booleans.
ScanCatalogues ==
    {c \in Catalogues :
        /\ Len(c) <= MaxScanRules
        /\ \A i \in 1..Len(c) : c[i].type = "automated" => c[i].kind # "none"}

\* The lists of at most MaxUrls URLs, which may repeat one.  The scan treats all
\* URLs alike, so the lists that start with the second URL are left out.
UrlLists ==
    {u \in SeqsUpTo(PageUrls, MaxUrls) : u = <<>> \/ u[1] = <<"https:", "//", "a.example", "/p">>}

isBoolean(checkResult) == checkResult \in {"true", "false"}

PageDocuments(rules) ==
    {d \in DocsFrom(rules, 1, MaxScanElements) :
        \A i \in 1..Len(d) : \A k \in 1..Len(d[i]) : isBoolean(d[i][k])}

PageResponses(rules) ==
    {[kind |-> k, doc |-> <<>>] : k \in {"rejected", "notOk", "parseError"}}
        \cup {[kind |-> "ok", doc |-> d] : d \in PageDocuments(rules)}

MultiInit ==
    /\ dgaRules \in ScanCatalogues
    /\ urls \in UrlLists
    /\ scannedCount = 0
    /\ allViolations = <<>>
    /\ allPassed = <<>>
    /\ pageResults = <<>>
    /\ scanProgress = <<>>
    /\ mpc = "loop"
    /\ aggregate = NoAggregate
    /\ lengths = NoLengths /\ overall = NoOverall
    /\ entry = "scanMultipleUrls" /\ target = <<>> /\ document = <<>>
    /\ report = NoReport /\ spc = "idle" /\ fetched = "" /\ markup = NoMarkup
    \* no crawl is running
    /\ baseUrl = <<>> /\ maxPages = 0 /\ maxDepth = 0 /\ site = {}
    /\ discoveredUrls = <<>> /\ visitedUrls = <<>> /\ queue = <<>>
    /\ cur = NoEntry /\ pc = "idle" /\ crawlResult = <<>> /\ progress = <<>>
    /\ enqueued = <<>> /\ failures = <<>> /\ seenHrefs = {}
    /\ iterStart = [discovered |-> 0, queue |-> 0]

\* The head of an iteration of for (const url of urls), up to await scanUrl(url):
\* lines 482-490.
StartPageCountingFromOne ==
    /\ mpc = "loop" /\ scannedCount < Len(urls)
    /\ scanProgress' = Append(scanProgress, [scanned |-> scannedCount + 1, total |-> Len(urls),
                                             currentUrl |-> urls[scannedCount + 1]])
    /\ mpc' = "await"
    /\ UNCHANGED <<urls, scannedCount, allViolations, allPassed, pageResults, aggregate>>
    /\ UNCHANGED <<crawlVars, scanVars, scoreVars>>
StartPage ==
    /\ mpc = "loop" /\ scannedCount < Len(urls)
    /\ scanProgress' = Append(scanProgress, [scanned |-> scannedCount, total |-> Len(urls),
                                             currentUrl |-> urls[scannedCount + 1]])
    /\ mpc' = "await"
    /\ UNCHANGED <<urls, scannedCount, allViolations, allPassed, pageResults, aggregate>>
    /\ UNCHANGED <<crawlVars, scanVars, scoreVars>>

\* {...entry, pageUrl: url} for every entry of a list
withPageUrl(entries, url) ==
    [k \in 1..Len(entries) |->
        [f \in DOMAIN entries[k] \cup {"pageUrl"} |->
            IF f = "pageUrl" THEN url ELSE entries[k][f]]]

\* scanUrl resolved: lines 490-513 and 525.  scanUrl catches every failure
\* itself, so the catch of lines 514-523 is never entered.
PageScanned ==
    /\ mpc = "await"
    /\ \E response \in PageResponses(dgaRules) :
         LET url == urls[scannedCount + 1]
             result == scanUrl(url, response)
         IN  /\ report' = result
             /\ fetched' = response.kind
             /\ pageResults' = Append(pageResults,
                    [url |-> url, score |-> result.score,
                     violationCount |-> Len(result.violations),
                     passedCount |-> Len(result.passed)])
             /\ allViolations' = allViolations \o withPageUrl(result.violations, url)
             /\ allPassed' = allPassed \o withPageUrl(result.passed, url)
    /\ scannedCount' = scannedCount + 1
    /\ mpc' = "loop"
    /\ UNCHANGED <<urls, scanProgress, aggregate>>
    /\ UNCHANGED <<dgaRules, entry, target, document, spc, markup>>
    /\ UNCHANGED <<crawlVars, scoreVars>>

\* `${violation.id}-${violation.description}`: rule ids hold no '-', so the
\* key determines the pair.
keyPerPage(violation) == <<violation.id, "-", violation.description, violation.pageUrl>>
keyOf(violation) == <<violation.id, "-", violation.description>>

\* The deduplication with occurrences++ outside the test of affectedPages:
\* every further violation of a key is counted, from a new page or not.
RECURSIVE dedupeCountingAll(_, _)
dedupeCountingAll(violations, unique) ==
    IF violations = <<>> THEN unique
    ELSE LET violation == Head(violations)
             at == {k \in 1..Len(unique) :
                      <<unique[k].id, unique[k].description>>
                          = <<violation.id, violation.description>>}
         IN  IF at = {}
             THEN dedupeCountingAll(Tail(violations),
                         Append(unique,
                                [f \in DOMAIN violation \cup {"affectedPages", "occurrences"} |->
                                    IF f = "affectedPages" THEN <<violation.pageUrl>>
                                    ELSE IF f = "occurrences" THEN 1
                                    ELSE violation[f]]))
             ELSE LET k == CHOOSE k \in at : TRUE
                  IN  dedupeCountingAll(Tail(violations),
                             IF has(unique[k].affectedPages, violation.pageUrl)
                             THEN [unique EXCEPT ![k].occurrences = @ + 1]
                             ELSE [unique EXCEPT
                                     ![k].affectedPages = Append(@, violation.pageUrl),
                                     ![k].occurrences = @ + 1])

\* allViolations.forEach of lines 548-567 over the values of violationMap, in
\* insertion order.
RECURSIVE dedupe(_, _)
dedupe(violations, unique) ==
    IF violations = <<>> THEN unique
    ELSE LET violation == Head(violations)
             at == {k \in 1..Len(unique) : keyOf(unique[k]) = keyOf(violation)}
         IN  IF at = {}
             THEN dedupe(Tail(violations),
                         Append(unique,
                                [f \in DOMAIN violation \cup {"affectedPages", "occurrences"} |->
                                    IF f = "affectedPages" THEN <<violation.pageUrl>>
                                    ELSE IF f = "occurrences" THEN 1
                                    ELSE violation[f]]))
             ELSE LET k == CHOOSE k \in at : TRUE
                  IN  dedupe(Tail(violations),
                             IF has(unique[k].affectedPages, violation.pageUrl) THEN unique
                             ELSE [unique EXCEPT
                                     ![k].affectedPages = Append(@, violation.pageUrl),
                                     ![k].occurrences = @ + 1])

\* Lines 532-536.
statusAtLeast(violationCount, passedCount) ==
    IF violationCount > 0
    THEN IF violationCount >= passedCount THEN "Non-Compliant" ELSE "Partially Compliant"
    ELSE "Compliant"
statusOf(violationCount, passedCount) ==
    IF violationCount > 0
    THEN IF violationCount > passedCount THEN "Non-Compliant" ELSE "Partially Compliant"
    ELSE "Compliant"

\* The loop is over: lines 528-582.
Aggregate ==
    /\ mpc = "loop" /\ scannedCount >= Len(urls)
    /\ scanProgress' = Append(scanProgress, [scanned |-> scannedCount, total |-> Len(urls),
                                             completed |-> TRUE])
    /\ aggregate' =
         [score |-> scoreOf(Len(allPassed), Len(allViolations)),
          status |-> statusOf(Len(allViolations), Len(allPassed)),
          violations |-> dedupe(allViolations, <<>>),
          passed |-> allPassed,
          totalChecks |-> Len(allViolations) + Len(allPassed),
          pageResults |-> pageResults,
          totalPages |-> Len(urls),
          pagesWithViolations |->
              Cardinality({k \in 1..Len(pageResults) : pageResults[k].violationCount > 0}),
          totalViolationsBeforeDedup |-> Len(allViolations)]
    /\ mpc' = "done"
    /\ UNCHANGED <<urls, scannedCount, allViolations, allPassed, pageResults>>
    /\ UNCHANGED <<crawlVars, scanVars, scoreVars>>

(***************************************************************************)
(* The overall score of scanMultipleUrls as a function of the lengths of   *)
(* allPassed and allViolations when the loop is over: what up to           *)
(* MaxScannedPages pages of ChecksPerPage checks each can add up to.       *)
(***************************************************************************)
ScoreInit ==
    /\ \E k \in 0..MaxScannedPages : \E p \in 0..(ChecksPerPage * k) :
         lengths = [passed |-> p, violations |-> ChecksPerPage * k - p]
    /\ overall = NoOverall
    \* no crawl is running
    /\ baseUrl = <<>> /\ maxPages = 0 /\ maxDepth = 0 /\ site = {}
    /\ discoveredUrls = <<>> /\ visitedUrls = <<>> /\ queue = <<>>
    /\ cur = NoEntry /\ pc = "idle" /\ crawlResult = <<>> /\ progress = <<>>
    /\ enqueued = <<>> /\ failures = <<>> /\ seenHrefs = {}
    /\ iterStart = [discovered |-> 0, queue |-> 0]
    \* the rule engine is not called
    /\ dgaRules = <<>> /\ entry = "none" /\ target = <<>> /\ document = <<>>
    /\ report = NoReport /\ spc = "idle" /\ fetched = "" /\ markup = NoMarkup
    /\ urls = <<>> /\ scannedCount = 0 /\ allViolations = <<>> /\ allPassed = <<>>
    /\ pageResults = <<>> /\ scanProgress = <<>> /\ mpc = "idle"
    /\ aggregate = NoAggregate

\* Lines 529-530.
ComputeOverallScore ==
    /\ ~overall.computed
    /\ overall' = [totalChecks |-> lengths.violations + lengths.passed,
                   overallScore |-> scoreOf(lengths.passed, lengths.violations),
                   computed |-> TRUE]
    /\ UNCHANGED lengths
    /\ UNCHANGED <<crawlVars, scanVars, multiVars>>

(***************************************************************************)
(* Four rules of the catalogue (dgaRules.js) on the markup of a document.  *)
(* An element is a record of its tag, the attributes the rules read, and   *)
(* its text.  Text outside ASCII is written by its code points:            *)
(* u0627u0644u0639u0631u0628u064Au0629 is the Arabic word for 'Arabic',    *)
(* u0628u062Du062B the word for 'search', u062Du0642u0648u0642 the word    *)
(* for 'rights', u00A9 the copyright sign.                                 *)
(***************************************************************************)
Div == [tag |-> "div", role |-> "", class |-> "", id |-> "", type |-> "", placeholder |-> "",
        hreflang |-> "", href |-> "", rel |-> "", ariaLabel |-> "", dataLang |-> FALSE,
        text |-> "", options |-> {}]

Elements ==
    { [Div EXCEPT !.tag = "footer"],
      [Div EXCEPT !.role = "contentinfo"],
      [Div EXCEPT !.class = "site-footer"],
      [Div EXCEPT !.id = "Footer"],
      [Div EXCEPT !.tag = "p", !.text = "u00A9 2024"],
      [Div EXCEPT !.tag = "nav"],
      [Div EXCEPT !.tag = "ul", !.role = "menu"],
      [Div EXCEPT !.role = "navigation"],
      [Div EXCEPT !.tag = "input", !.type = "search"],
      [Div EXCEPT !.tag = "form", !.role = "search"],
      [Div EXCEPT !.class = "search-box"],
      [Div EXCEPT !.tag = "input", !.type = "text", !.placeholder = "u0628u062Du062B"],
      [Div EXCEPT !.tag = "a", !.hreflang = "ar", !.href = "/home", !.text = "AR"],
      [Div EXCEPT !.tag = "a", !.href = "/ar/", !.text = "AR"],
      [Div EXCEPT !.tag = "button", !.ariaLabel = "Arabic"],
      [Div EXCEPT !.tag = "p", !.text = "u0627u0644u0639u0631u0628u064Au0629"],
      [Div EXCEPT !.tag = "link", !.rel = "alternate", !.hreflang = "ar"],
      [Div EXCEPT !.tag = "select", !.options = {[value |-> "ar", text |-> "AR"]}],
      [Div EXCEPT !.tag = "span", !.class = "lang-switch", !.text = "Arabic"],
      [Div EXCEPT !.tag = "p", !.text = "Home"] }

\* The documents: the attributes of <html>, and at most MaxMarkup elements.
Markups ==
    {[lang |-> l, dir |-> d, elements |-> e] :
        l \in {"", "ar", "en"}, d \in {"", "rtl"},
        e \in {x \in SUBSET Elements : Cardinality(x) <= MaxMarkup}}

\* String.prototype.includes on the strings above
Includes == {<<"site-footer", "footer">>, <<"search-box", "search">>,
             <<"lang-switch", "lang">>, <<"u00A9 2024", "u00A9">>,
             <<"www.gaft.gov.sa", "gaft.gov.sa">>}

includes(text, part) == text = part \/ <<text, part>> \in Includes

\* /[\u0600-\u06FF]/.test(text): a letter of the Arabic block
hasArabicScript(text) ==
    text \in {"u0627u0644u0639u0631u0628u064Au0629", "u0628u062Du062B", "u062Du0642u0648u0642"}

\* text.includes(the Arabic word for 'Arabic') || text.toLowerCase().includes('arabic')
namesArabic(text) ==
    includes(text, "u0627u0644u0639u0631u0628u064Au0629") \/ includes(LowerToken(text), "arabic")

\* doc.body.textContent holds the text of every element and option of the body
bodyTexts(doc) ==
    {e.text : e \in doc.elements} \cup UNION {{o.text : o \in e.options} : e \in doc.elements}

\* new URL(url).hostname, '' when the constructor throws
hostnameOf(url) ==
    IF ParseURL(url, NoURL) = NoURL THEN "" ELSE ParseURL(url, NoURL).host

\* dgaRules.js lines 219-231
globalCheck10(doc) ==
    IF \E e \in doc.elements : e.tag = "input" /\ e.type = "search" THEN "true"
    ELSE IF \E e \in doc.elements : e.role = "search" THEN "true"
    ELSE IF \E e \in doc.elements : includes(e.class, "search") \/ includes(e.id, "search")
         THEN "true"
    ELSE IF \E e \in doc.elements : includes(e.class, "Search") \/ includes(e.id, "Search")
         THEN "true"
    ELSE IF \E e \in doc.elements :
                e.tag = "input" /\ (includes(e.placeholder, "search")
                                       \/ includes(e.placeholder, "u0628u062Du062B"))
         THEN "true"
    ELSE "false"

\* dgaRules.js lines 584-596
globalCheck27(doc) ==
    IF \E e \in doc.elements : e.tag = "footer" THEN "true"
    ELSE IF \E e \in doc.elements : e.role = "contentinfo" THEN "true"
    ELSE IF \E e \in doc.elements : includes(e.class, "footer") \/ includes(e.class, "Footer")
         THEN "true"
    ELSE IF \E e \in doc.elements : includes(e.id, "footer") \/ includes(e.id, "Footer")
         THEN "true"
    ELSE IF \E t \in bodyTexts(doc) :
                includes(t, "u00A9") \/ includes(t, "Copyright")
                    \/ includes(t, "u062Du0642u0648u0642")
         THEN "true"
    ELSE "false"

\* dgaRules.js lines 866-908
hasArabicSwitch(doc) ==
    \/ \E e \in doc.elements :
          /\ e.tag = "a"
          /\ \/ e.hreflang = "ar"
             \/ e.href \in {"/ar", "/ar/"}       \* /\/ar(\/|$)/.test(href)
             \/ e.href \in {"/?lang=ar"}         \* /[?&]lang=ar/.test(href)
             \/ namesArabic(e.text)
    \/ \E e \in doc.elements :
          /\ e.tag = "button" \/ e.role = "button"
          /\ namesArabic(e.ariaLabel) \/ namesArabic(e.text)
    \/ \E e \in doc.elements :
          /\ e.tag = "select"
          /\ \E o \in e.options : o.value = "ar" \/ namesArabic(o.text)
    \/ \E e \in doc.elements :
          e.tag = "link" /\ e.rel = "alternate" /\ e.hreflang = "ar"
    \/ \E e \in doc.elements :
          /\ includes(e.class, "lang") \/ includes(e.id, "lang") \/ e.dataLang
          /\ namesArabic(e.text)
    \/ \E t \in bodyTexts(doc) : hasArabicScript(t)

\* dgaRules.js lines 857-913; url is doc._url || doc.location.href
globalCheck39BySwitch(doc, url) ==
    IF hostnameOf(url) # "" /\ includes(hostnameOf(url), "gaft.gov.sa") THEN "true"
    ELSE IF hasArabicSwitch(doc) THEN "true" ELSE "false"
globalCheck39(doc, url) ==
    IF hostnameOf(url) # "" /\ includes(hostnameOf(url), "gaft.gov.sa") THEN "true"
    ELSE IF doc.lang = "ar" \/ doc.dir = "rtl" THEN "true"
    ELSE IF hasArabicSwitch(doc) THEN "true" ELSE "false"

\* dgaRules.js lines 1109-1114: hasNav || hasMenu, where hasMenu is an
\* Element or null
globalCheck49(doc) ==
    IF \E e \in doc.elements : e.tag = "nav" THEN "true"
    ELSE IF \E e \in doc.elements : e.role = "menu" THEN "element"
    ELSE IF \E e \in doc.elements : e.role = "navigation" THEN "element"
    ELSE "null"

\* The four rules, in the order of the catalogue.
CatalogueRules ==
    << [id |-> "10", description |-> "Ensure Search template application.",
        type |-> "automated", kind |-> "global"],
       [id |-> "27", description |-> "Ensure Footer compliance.",
        type |-> "automated", kind |-> "global"],
       [id |-> "39", description |-> "Ensure \"Arabic First\" approach.",
        type |-> "automated", kind |-> "global"],
       [id |-> "49", description |-> "Ensure intuitive navigation and grouping.",
        type |-> "automated", kind |-> "global"] >>

\* rule.globalCheck(doc)
globalCheckOf(rule, doc, url) ==
    CASE rule.id = "10" -> globalCheck10(doc)
      [] rule.id = "27" -> globalCheck27(doc)
      [] rule.id = "39" -> globalCheck39(doc, url)
      [] rule.id = "49" -> globalCheck49(doc)

MarkupTargets == {<<>>, <<"https:", "//", "a.example", "/p">>,
                  <<"https:", "//", "www.gaft.gov.sa", "/p">>}

MarkupInit ==
    /\ dgaRules = CatalogueRules
    /\ entry = "scanDocument"
    /\ target \in MarkupTargets
    /\ markup \in Markups
    /\ document = <<>>
    /\ report = NoReport
    /\ spc = "call"
    /\ fetched = ""
    \* no crawl is running
    /\ baseUrl = <<>> /\ maxPages = 0 /\ maxDepth = 0 /\ site = {}
    /\ discoveredUrls = <<>> /\ visitedUrls = <<>> /\ queue = <<>>
    /\ cur = NoEntry /\ pc = "idle" /\ crawlResult = <<>> /\ progress = <<>>
    /\ enqueued = <<>> /\ failures = <<>> /\ seenHrefs = {}
    /\ iterStart = [discovered |-> 0, queue |-> 0]
    \* no multi-page scan is running
    /\ urls = <<>> /\ scannedCount = 0 /\ allViolations = <<>> /\ allPassed = <<>>
    /\ pageResults = <<>> /\ scanProgress = <<>> /\ mpc = "idle"
    /\ aggregate = NoAggregate
    /\ lengths = NoLengths /\ overall = NoOverall

\* scanDocument(doc, pageUrl) on a document of the markup
ScanMarkup ==
    /\ spc = "call"
    /\ LET seen == [i \in 1..Len(dgaRules) |->
                      <<globalCheckOf(dgaRules[i], markup, pageUrlOr(target))>>]
       IN  /\ document' = seen
           /\ report' = scanDocument(seen, target)
    /\ spc' = "returned"
    /\ UNCHANGED <<dgaRules, entry, target, fetched, markup>>
    /\ UNCHANGED <<crawlVars, multiVars, scoreVars>>

(***************************************************************************)
(* The specifications: one per exported entry point.                       *)
(***************************************************************************)
Next == Skip \/ Visit \/ FetchNotOk \/ FetchError \/ FetchOk \/ Return

Spec == Init /\ [][Next]_vars

\* Each fetch eventually completes or fails, and the event loop runs the crawl on.
FairSpec == Spec /\ WF_vars(Next)

ScanNext == CallScanDocument \/ CallScanUrl

ScanSpec == ScanInit /\ [][ScanNext]_vars

MultiNext == StartPage \/ PageScanned \/ Aggregate

MultiSpec == MultiInit /\ [][MultiNext]_vars

ScoreNext == ComputeOverallScore

ScoreSpec == ScoreInit /\ [][ScoreNext]_vars

MarkupNext == ScanMarkup

MarkupSpec == MarkupInit /\ [][MarkupNext]_vars

(***************************************************************************)
(* Properties of crawlWebsite.                                             *)
(***************************************************************************)
parsed(url) == ParseURL(url, NoURL)

\* The entries of discoveredUrls that lines 69-73 added from extracted links:
\* all but the seed, which line 30 adds first.
linkEntries == 2..Len(discoveredUrls)

\* A path ending, whatever the case, in one of the non-page extensions.
hasNonPageExtension(path) ==
    /\ path # <<>>
    /\ \E i \in 1..Len(nonPageExtensions) :
         LowerToken(path[Len(path)]) = nonPageExtensions[i]

\* C1: the array crawlWebsite returns holds at most maxPages URLs, for every
\* maxPages >= 0.
C1_AtMostMaxPages == pc = "done" => Len(crawlResult) <= maxPages

\* C2: every URL added to discoveredUrls from an extracted link, and so every
\* returned URL but the seed, has the scheme, the host and the port of the seed.
C2_SameOrigin ==
    /\ \A i \in linkEntries :
         /\ parsed(discoveredUrls[i]).scheme = parsed(baseUrl).scheme
         /\ parsed(discoveredUrls[i]).host = parsed(baseUrl).host
         /\ parsed(discoveredUrls[i]).port = parsed(baseUrl).port
    /\ \A i \in 2..Len(crawlResult) :
         /\ parsed(crawlResult[i]).scheme = parsed(baseUrl).scheme
         /\ parsed(crawlResult[i]).host = parsed(baseUrl).host
         /\ parsed(crawlResult[i]).port = parsed(baseUrl).port

\* A crawl has returned a link although the pages it fetched held anchors to
\* another host, another scheme and another port.
C2_Witness ==
    /\ pc = "done" /\ Len(crawlResult) >= 2
    /\ <<"https:", "//", "b.example", "/q">> \in seenHrefs
    /\ <<"http:", "//", "a.example", "/q">> \in seenHrefs
    /\ <<"https:", "//", "a.example", ":8443", "/q">> \in seenHrefs

\* C3: no URL whose path ends, case-insensitively, in a non-page extension is
\* ever added to discoveredUrls, whatever its query string or fragment.
C3_NoNonPageExtension ==
    \A i \in linkEntries : ~hasNonPageExtension(parsed(discoveredUrls[i]).path)

\* C4: links that differ only in their fragment collapse to one entry: an
\* entry added from a link carries no fragment, no two such entries are equal
\* up to their fragment, and no URL is enqueued twice.
C4_FragmentsCollapse ==
    /\ \A i \in linkEntries : parsed(discoveredUrls[i]).hash = <<>>
    /\ \A i, j \in linkEntries :
         [parsed(discoveredUrls[i]) EXCEPT !.hash = <<>>]
            = [parsed(discoveredUrls[j]) EXCEPT !.hash = <<>>]
            => i = j
    /\ \A i, j \in 2..Len(enqueued) : enqueued[i].url = enqueued[j].url => i = j

\* The pages fetched held the links /p#foo and /p#bar, and discoveredUrls
\* holds https://a.example/p once, enqueued once.
C4_Witness ==
    /\ <<"/p", "#foo">> \in seenHrefs
    /\ <<"/p", "#bar">> \in seenHrefs
    /\ Cardinality({i \in linkEntries :
                      discoveredUrls[i] = <<"https:", "//", "a.example", "/p">>}) = 1
    /\ Cardinality({i \in 1..Len(enqueued) :
                      enqueued[i].url = <<"https:", "//", "a.example", "/p">>}) = 1

\* C5: a URL enqueued at a depth greater than maxDepth is never marked
\* visited nor fetched.
C5_DepthBound ==
    /\ \A i \in 1..Len(enqueued) :
         enqueued[i].depth > maxDepth => ~has(visitedUrls, enqueued[i].url)
    /\ pc = "fetch" => cur.depth <= maxDepth

\* An entry enqueued at depth maxDepth + 1 was taken from the queue and skipped.
C5_Witness ==
    /\ pc = "done"
    /\ \E i \in 1..Len(enqueued) :
         /\ enqueued[i].depth = maxDepth + 1
         /\ \A k \in 1..Len(queue) : queue[k] # enqueued[i]
         /\ ~has(visitedUrls, enqueued[i].url)

\* C6: the crawl terminates when every fetch completes or fails, and every
\* iteration of the loop has either added to discoveredUrls (so decreased
\* maxPages - |discoveredUrls|) or left the queue shorter than it found it.
C6_IterationDecreases ==
    (pc = "loop" /\ iterStart.queue > 0) =>
        \/ maxPages - Len(discoveredUrls) < maxPages - iterStart.discovered
        \/ Len(queue) < iterStart.queue
C6_Terminates == []C6_IterationDecreases /\ <>(pc = "done")

\* A crawl ended after iterations that skipped, that failed and that added links.
C6_Witness ==
    /\ pc = "done"
    /\ Len(visitedUrls) >= 2
    /\ failures # <<>>
    /\ Len(discoveredUrls) >= 3

\* C7: a failed fetch adds nothing to discoveredUrls or to the queue and
\* hands control back to the loop, and what was discovered before the failure
\* is in the returned array.
C7_FailureStep ==
    (pc = "fetch" /\ failures' # failures) =>
        /\ discoveredUrls' = discoveredUrls
        /\ queue' = queue
        /\ pc' = "loop"
C7_FetchFailureContinues ==
    /\ [][C7_FailureStep]_vars
    /\ [](pc = "done" =>
            \A i \in 1..Len(failures) :
                \A k \in 1..Len(failures[i].discovered) :
                    has(crawlResult, failures[i].discovered[k]))

\* A crawl returned two URLs or more after a fetch failed and a later page
\* was visited.
C7_Witness ==
    /\ pc = "done" /\ Len(crawlResult) >= 2
    /\ \E i \in 1..Len(failures) :
         /\ Len(failures[i].discovered) >= 2
         /\ \E k \in 1..Len(visitedUrls) :
              /\ visitedUrls[k] = failures[i].url
              /\ k < Len(visitedUrls)

(***************************************************************************)
(* Properties of scanDocument and scanUrl.                                 *)
(***************************************************************************)
ids(entries) == {entries[k].id : k \in 1..Len(entries)}

\* A document was scanned and its report returned.
scanned == spc = "returned" /\ report.error = ""

\* C8: a selector rule (automated) whose selector matches no element of the
\* scanned document is recorded in passed and not in violations.
C8_VacuousPass ==
    scanned =>
        \A i \in 1..Len(dgaRules) :
            (dgaRules[i].type = "automated" /\ dgaRules[i].kind = "selector"
                /\ document[i] = <<>>)
            => /\ Cardinality({k \in 1..Len(report.passed) : report.passed[k].id = i}) = 1
               /\ i \notin ids(report.violations)

\* One selector rule matched nothing and passed while another, which matched
\* an element that failed its check, is a violation.
C8_Witness ==
    /\ scanned
    /\ \E i, j \in 1..Len(dgaRules) :
         /\ dgaRules[i].type = "automated" /\ dgaRules[i].kind = "selector"
         /\ dgaRules[j].type = "automated" /\ dgaRules[j].kind = "selector"
         /\ document[i] = <<>> /\ i \in ids(report.passed)
         /\ document[j] # <<>> /\ j \in ids(report.violations)

\* s is x / total rounded to the nearest integer, halves up.
isRounded(s, x, total) == 2 * s * total <= 2 * x + total /\ 2 * x + total < 2 * (s + 1) * total

scoreIsFormula(r) ==
    /\ r.totalChecks > 0 =>
         isRounded(r.score, 100 * Len(r.passed), Len(r.passed) + Len(r.violations))
    /\ r.totalChecks = 0 => r.score = 100

\* C9 as claimed: every report returned by scanDocument or scanUrl has
\* score = round(100 * |passed| / (|passed| + |violations|)) when totalChecks > 0
\* and score = 100 when totalChecks = 0.
C9_ScoreFormula == spc = "returned" => scoreIsFormula(report)

\* C9 as amended: the formula holds of every report that carries no error; the
\* error-shaped report of scanUrl has score 0 and totalChecks 0.  By the
\* formula 7 passed and 3 violations score 70.
C9_ScoreFormulaUnlessError ==
    /\ spc = "returned" =>
         /\ report.error = "" => scoreIsFormula(report)
         /\ report.error # "" => report.score = 0 /\ report.totalChecks = 0
    /\ scoreOf(7, 3) = 70

\* scanUrl resolved to a report of two passed checks and one violation, score 67.
C9_Witness ==
    /\ scanned /\ entry = "scanUrl"
    /\ Len(report.passed) = 2 /\ Len(report.violations) = 1
    /\ report.score = 67

(***************************************************************************)
(* Properties of the reports of scanUrl and scanMultipleUrls.              *)
(***************************************************************************)
automatedOnly(entries) ==
    \A k \in 1..Len(entries) : dgaRules[entries[k].id].type = "automated"

\* The rules that are not manual and carry a check.
checkedRules ==
    {i \in 1..Len(dgaRules) : dgaRules[i].type = "automated" /\ dgaRules[i].kind # "none"}

\* C10: the id of a manual rule is neither in passed nor in violations of a
\* page report, of the running lists or of the aggregate report; a page report
\* without error counts exactly the automated rules that carry a check, so the
\* manual rules change neither totalChecks nor score, and the aggregate counts
\* and scores exactly the entries of its pages.
C10_ManualNeverScored ==
    /\ automatedOnly(report.passed) /\ automatedOnly(report.violations)
    /\ report.totalChecks = Len(report.passed) + Len(report.violations)
    /\ report.totalChecks = (IF report.error = "" /\ report # NoReport
                             THEN Cardinality(checkedRules) ELSE 0)
    /\ (report.error = "" /\ report # NoReport) =>
         report.score = scoreOf(Len(report.passed), Len(report.violations))
    /\ automatedOnly(allPassed) /\ automatedOnly(allViolations)
    /\ \A k \in 1..Len(pageResults) :
         pageResults[k].violationCount + pageResults[k].passedCount
            \in {0, Cardinality(checkedRules)}
    /\ mpc = "done" =>
         /\ automatedOnly(aggregate.passed) /\ automatedOnly(aggregate.violations)
         /\ aggregate.totalChecks = Len(allPassed) + Len(allViolations)
         /\ aggregate.totalChecks <= Len(urls) * Cardinality(checkedRules)
         /\ aggregate.score = scoreOf(Len(allPassed), Len(allViolations))

\* Two pages were scanned against a catalogue of a manual rule that carries a
\* globalCheck and an automated rule: the aggregate report counts two checks,
\* one passed and one violation, all of the automated rule.
C10_Witness ==
    /\ mpc = "done" /\ Len(urls) = 2
    /\ \E i \in 1..Len(dgaRules) : dgaRules[i].type = "manual" /\ dgaRules[i].kind = "global"
    /\ Cardinality(checkedRules) = 1
    /\ aggregate.totalChecks = 2
    /\ Len(aggregate.passed) = 1 /\ Len(aggregate.violations) = 1
    /\ aggregate.score = 50

(***************************************************************************)
(* Exceptions thrown by the checks of the rules.                           *)
(***************************************************************************)
entriesOf(entries, i) == Cardinality({k \in 1..Len(entries) : entries[k].id = i})

throwingGlobal(i) ==
    dgaRules[i].type = "automated" /\ dgaRules[i].kind = "global" /\ document[i] = <<"throws">>

throwingElement(i) ==
    /\ dgaRules[i].type = "automated" /\ dgaRules[i].kind = "selector"
    /\ \E k \in 1..Len(document[i]) : document[i][k] = "throws"

\* C11: a check that throws never ends scanDocument: the report is returned
\* (scanUrl resolves to it, not to an error report); a rule whose globalCheck
\* threw has exactly one entry in violations and none in passed, a rule whose
\* check threw on an element has an entry in violations and none in passed, and
\* every other rule that carries a check still has its one entry.
C11_ExceptionsAreViolations ==
    (spc = "returned" /\ (entry = "scanDocument" \/ (fetched = "ok" /\ ParseURL(target, NoURL) # NoURL)))
    => /\ report.error = ""
       /\ \A i \in 1..Len(dgaRules) :
            /\ throwingGlobal(i) =>
                 entriesOf(report.violations, i) = 1 /\ entriesOf(report.passed, i) = 0
            /\ throwingElement(i) =>
                 entriesOf(report.violations, i) = 1 /\ entriesOf(report.passed, i) = 0
            /\ i \in checkedRules =>
                 entriesOf(report.violations, i) + entriesOf(report.passed, i) = 1

\* The globalCheck of the first rule threw, the check of the second threw on
\* an element, and the third rule was still evaluated, and passed.
C11_Witness ==
    /\ spc = "returned" /\ report.error = "" /\ Len(dgaRules) = 3
    /\ throwingGlobal(1) /\ throwingElement(2)
    /\ ids(report.violations) = {1, 2}
    /\ ids(report.passed) = {3}

(***************************************************************************)
(* Properties of the aggregate report of scanMultipleUrls.                 *)
(***************************************************************************)
pairOf(violation) == <<violation.id, violation.description>>

pairsOf(violations) == {pairOf(violations[k]) : k \in 1..Len(violations)}

\* The pages (URLs) that produced a violation of the pair.
pagesOf(violations, pair) ==
    {violations[k].pageUrl : k \in {j \in 1..Len(violations) : pairOf(violations[j]) = pair}}

\* C12: the deduplicated violations hold exactly one entry per (id,
\* description) pair of the violations collected from the pages, and the entry
\* of a pair that N distinct pages produced has N affected pages and
\* occurrences = N.
C12_OneEntryPerPair ==
    mpc = "done" =>
        /\ pairsOf(aggregate.violations) = pairsOf(allViolations)
        /\ \A pair \in pairsOf(allViolations) :
             Cardinality({k \in 1..Len(aggregate.violations) :
                             pairOf(aggregate.violations[k]) = pair}) = 1
        /\ \A k \in 1..Len(aggregate.violations) :
             LET N == Cardinality(pagesOf(allViolations, pairOf(aggregate.violations[k])))
             IN  /\ Len(aggregate.violations[k].affectedPages) = N
                 /\ aggregate.violations[k].occurrences = N
                 /\ Range(aggregate.violations[k].affectedPages)
                       = pagesOf(allViolations, pairOf(aggregate.violations[k]))

\* Two distinct pages each violated the same two rules: two entries, each
\* with both pages and occurrences = 2.
C12_Witness ==
    /\ mpc = "done" /\ Len(urls) = 2 /\ urls[1] # urls[2]
    /\ Len(allViolations) = 4
    /\ Len(aggregate.violations) = 2
    /\ \A k \in 1..2 : /\ aggregate.violations[k].affectedPages = urls
                       /\ aggregate.violations[k].occurrences = 2

\* C13: the status of the aggregate report is 'Compliant' exactly when no
\* page produced a violation, 'Non-Compliant' exactly when the violations
\* collected from the pages outnumber the passed checks, and 'Partially
\* Compliant' exactly when there is a violation and the violations do not
\* outnumber the passed checks (equal counts included); the counts are those
\* before deduplication.
C13_StatusThresholds ==
    mpc = "done" =>
        LET V == Len(allViolations)
            P == Len(allPassed)
        IN  /\ aggregate.status \in {"Compliant", "Non-Compliant", "Partially Compliant"}
            /\ aggregate.status = "Compliant" <=> V = 0
            /\ aggregate.status = "Non-Compliant" <=> V > P
            /\ aggregate.status = "Partially Compliant" <=> (V > 0 /\ V <= P)
            /\ V = aggregate.totalViolationsBeforeDedup /\ P = Len(aggregate.passed)

\* Two pages gave two violations of one rule and two passed checks: equal
\* counts before deduplication, and the status is 'Partially Compliant'.
C13_Witness ==
    /\ mpc = "done"
    /\ Len(allViolations) = 2 /\ Len(allPassed) = 2
    /\ Len(aggregate.violations) = 1
    /\ aggregate.status = "Partially Compliant"

\* The scan of the page just processed failed: scanUrl resolved to an error report.
pageFailed == mpc = "loop" /\ scannedCount > 0 /\ report.error # ""

\* C14: the summary recorded for a page whose fetch or parse failed has score
\* 0 and an error field, the page adds nothing to the violations and passed
\* checks collected, and the scan goes on with the next URL.
C14_FailedPageSummary ==
    pageFailed =>
        LET summary == pageResults[scannedCount]
        IN  /\ summary.url = urls[scannedCount]
            /\ summary.score = 0
            /\ summary.violationCount = 0 /\ summary.passedCount = 0
            /\ \A k \in 1..Len(allViolations) : allViolations[k].pageUrl # summary.url
                    \/ \E j \in 1..(scannedCount - 1) : urls[j] = summary.url
            /\ ENABLED (StartPage \/ Aggregate)
            /\ "error" \in DOMAIN summary

(***************************************************************************)
(* Failures of scanUrl.                                                    *)
(***************************************************************************)
\* The message of the error that ends the try block of scanUrl, "" if none does:
\* new URL(url) throws, fetch rejects, the status is not OK (line 426), or no
\* parser is available (line 451).
failureOf(url, kind) ==
    IF ParseURL(url, NoURL) = NoURL THEN "Invalid URL"
    ELSE IF kind = "rejected" THEN "fetch failed"
    ELSE IF kind = "notOk" THEN "Failed to fetch the URL"
    ELSE IF kind = "parseError" THEN "DOMParser not available and JSDOM failed"
    ELSE ""

\* C15: scanUrl always resolves to a report.  When the URL is malformed, the
\* fetch rejects, the status is not OK or the parser fails, the report is
\* {error: the failure's message, score: 0, violations: [], passed: [],
\* totalChecks: 0, pageUrl: the url given}; otherwise it carries no error.
C15_ScanUrlNeverRejects ==
    (spc = "returned" /\ entry = "scanUrl") =>
        /\ DOMAIN report = {"error", "score", "violations", "passed", "totalChecks", "pageUrl"}
        /\ failureOf(target, fetched) # "" =>
             report = [error |-> failureOf(target, fetched), score |-> 0,
                       violations |-> <<>>, passed |-> <<>>, totalChecks |-> 0,
                       pageUrl |-> target]
        /\ failureOf(target, fetched) = "" => report.error = "" /\ report.pageUrl = target

\* scanUrl was given a URL that parses and the response's status was not OK.
C15_Witness ==
    /\ spc = "returned" /\ entry = "scanUrl" /\ Len(dgaRules) > 0
    /\ ParseURL(target, NoURL) # NoURL /\ fetched = "notOk"
    /\ report.error = "Failed to fetch the URL" /\ report.score = 0
    /\ report.pageUrl = target

(***************************************************************************)
(* The overall score.                                                      *)
(***************************************************************************)
\* C16: the score of the aggregate report is round(100 * P / (P + V)) for P
\* passed entries and V violations collected from all pages before
\* deduplication, 100 when P + V = 0, and totalChecks is P + V.
C16_OverallScore ==
    overall.computed =>
        LET P == lengths.passed
            V == lengths.violations
        IN  /\ overall.totalChecks = P + V
            /\ P + V = 0 => overall.overallScore = 100
            /\ P + V > 0 => isRounded(overall.overallScore, 100 * P, P + V)

(***************************************************************************)
(* The rules of the catalogue.                                             *)
(***************************************************************************)
\* The document is <html lang="ar"> with no other markup.
onlyLangAr == markup = [lang |-> "ar", dir |-> "", elements |-> {}]

\* C17: the report of a document whose only markup is <html lang="ar"> has
\* rule 39 (Arabic first) in passed, and rules 27 (footer), 49 (navigation)
\* and 10 (search bar) in violations.
C17_LangArDocument ==
    (spc = "returned" /\ dgaRules = CatalogueRules /\ onlyLangAr) =>
        /\ "39" \in ids(report.passed) /\ "39" \notin ids(report.violations)
        /\ {"27", "49", "10"} \subseteq ids(report.violations)
        /\ {"27", "49", "10"} \cap ids(report.passed) = {}

\* The document <html lang="ar"> was scanned, with no page URL given.
C17_Witness ==
    /\ spc = "returned" /\ dgaRules = CatalogueRules /\ onlyLangAr /\ target = <<>>
    /\ ids(report.passed) = {"39"}
    /\ Len(report.violations) = 3
    /\ report.score = 25

(***************************************************************************)
(* The preview of a violation of a selector rule.                          *)
(***************************************************************************)
\* The place, in document order, of the first matched element that failed
\* the check: it returned a value that does not pass, or threw.
firstFailing(elements) ==
    CHOOSE k \in 1..Len(elements) :
        /\ ~passedOf(elements[k])
        /\ \A j \in 1..(k - 1) : passedOf(elements[j])

\* C18: the preview of the violation of a selector rule is the snippet of the
\* first matched element, in document order, that failed the check, also when
\* it failed because the check threw.
C18_PreviewOfFirstFailing ==
    scanned =>
        \A v \in 1..Len(report.violations) :
            LET i == report.violations[v].id
            IN  dgaRules[i].kind = "selector" =>
                    report.violations[v].preview = <<"element", firstFailing(document[i])>>

(***************************************************************************)
(* The occurrences of the deduplicated violations.                         *)
(***************************************************************************)
RECURSIVE sumOfOccurrences(_)
sumOfOccurrences(violations) ==
    IF violations = <<>> THEN 0
    ELSE Head(violations).occurrences + sumOfOccurrences(Tail(violations))

\* C19: for every list of URLs, one that repeats a URL included, the
\* occurrences of the deduplicated violations add up to
\* totalViolationsBeforeDedup.
C19_OccurrencesAddUp ==
    mpc = "done" =>
        sumOfOccurrences(aggregate.violations) = aggregate.totalViolationsBeforeDedup

(***************************************************************************)
(* The order of a multi-page scan.                                         *)
(***************************************************************************)
\* The progress events emitted for pages so far.
pageEvents == scannedCount + (IF mpc = "await" THEN 1 ELSE 0)

\* The summaries and events recorded so far follow the input.
inInputOrder ==
    mpc # "idle" =>
        /\ scannedCount <= Len(urls)
        /\ Len(pageResults) = scannedCount
        /\ \A k \in 1..Len(pageResults) : pageResults[k].url = urls[k]
        /\ Len(scanProgress) = pageEvents + (IF mpc = "done" THEN 1 ELSE 0)
        /\ \A k \in 1..pageEvents :
             scanProgress[k] = [scanned |-> k - 1, total |-> Len(urls), currentUrl |-> urls[k]]
        /\ mpc = "done" =>
             /\ scannedCount = Len(urls)
             /\ scanProgress[Len(urls) + 1]
                   = [scanned |-> Len(urls), total |-> Len(urls), completed |-> TRUE]

\* A step that settles the fetch of a URL and records its summary finds the
\* event of that URL emitted; a step that emits the event of a URL finds the
\* summaries of all earlier URLs recorded and this URL not fetched.
oneAfterAnother ==
    /\ pageResults' # pageResults =>
         /\ Len(scanProgress) = Len(pageResults) + 1
         /\ scanProgress[Len(scanProgress)].currentUrl = urls[Len(pageResults) + 1]
         /\ pageResults' = Append(pageResults, pageResults'[Len(pageResults')])
         /\ scanProgress' = scanProgress
    /\ scanProgress' # scanProgress =>
         /\ Len(scanProgress) = Len(pageResults)
         /\ pageResults' = pageResults /\ fetched' = fetched /\ report' = report

\* C20: the URLs are processed one after another in the order of the input:
\* the summary of urls[i] is the i-th of pageResults, one per URL; the event
\* {scanned: i, total: n, currentUrl: urls[i]} (i from 0) is emitted after
\* urls[i-1] was evaluated and its summary recorded and before urls[i] is
\* fetched; one last event {scanned: n, total: n, completed: true} follows the
\* last page.
C20_InputOrder == []inInputOrder /\ [][oneAfterAnother]_vars

\* Two different URLs were scanned: two summaries in the order of the input,
\* and three progress events.
C20_Witness ==
    /\ mpc = "done" /\ Len(urls) = 2 /\ urls[1] # urls[2]
    /\ pageResults[1].url = urls[1] /\ pageResults[2].url = urls[2]
    /\ Len(scanProgress) = 3
    /\ scanProgress[2].currentUrl = urls[2] /\ scanProgress[2].scanned = 1

\* The place of a URL in the history of the queue: the index of the first
\* entry created for it.
enqueuedAt(url) ==
    CHOOSE i \in 1..Len(enqueued) :
        /\ enqueued[i].url = url
        /\ \A k \in 1..(i - 1) : enqueued[k].url # url

\* C21: the crawler visits URLs in the order they were enqueued: of two
\* visited URLs the one enqueued first is visited first, the entry taken for
\* a fetch is older than every entry still queued, and the depths of
\* successively visited URLs never decrease.
C21_Fifo ==
    /\ \A i \in 1..Len(visitedUrls) :
         \E k \in 1..Len(enqueued) : enqueued[k].url = visitedUrls[i]
    /\ \A i, j \in 1..Len(visitedUrls) :
         i < j =>
            /\ enqueuedAt(visitedUrls[i]) < enqueuedAt(visitedUrls[j])
            /\ enqueued[enqueuedAt(visitedUrls[i])].depth
                 <= enqueued[enqueuedAt(visitedUrls[j])].depth
    /\ \A i \in 1..Len(visitedUrls) :
         \A k \in 1..Len(queue) :
            /\ enqueuedAt(visitedUrls[i]) < enqueuedAt(queue[k].url)
            /\ enqueued[enqueuedAt(visitedUrls[i])].depth <= queue[k].depth

\* The seed and then two of its links were visited, the links at depth 1 in
\* the order the seed's page gave them.
C21_Witness ==
    /\ Len(visitedUrls) = 3
    /\ Len(enqueued) >= 3
    /\ visitedUrls[2] = enqueued[2].url /\ enqueued[2].depth = 1
    /\ visitedUrls[3] = enqueued[3].url /\ enqueued[3].depth = 1

\* C22: for every maxPages >= 1 and maxDepth >= 0 the crawl visits and
\* fetches the seed: when the crawl has ended the first progress event has
\* currentUrl equal to the seed, and the seed is in visitedUrls.
C22_SeedVisited ==
    (pc = "done" /\ maxPages >= 1) =>
        /\ has(visitedUrls, baseUrl)
        /\ progress[1].currentUrl = baseUrl
        /\ ~progress[1].completed

\* The serialised form extractLinks gives a link to the page of the URL:
\* parsed, fragment removed, serialised (lines 120-129).
normalizedUrlOf(url) == toString(withoutHash(parsed(url)))

\* C23: the list crawlWebsite returns never holds two entries that denote the
\* same page after link normalisation; in particular a link that resolves to
\* the seed's page is not added or enqueued beside the seed.
C23_OneEntryPerPage ==
    /\ \A i, j \in 1..Len(crawlResult) :
         normalizedUrlOf(crawlResult[i]) = normalizedUrlOf(crawlResult[j]) => i = j
    /\ \A i \in 2..Len(enqueued) :
         normalizedUrlOf(enqueued[i].url) # normalizedUrlOf(baseUrl)

\* C24: every URL discovered, and so every URL returned, was enqueued at a
\* depth of at most maxDepth + 1; the links found on a page visited at depth
\* maxDepth are discovered and returned although they are never visited.
C24_DiscoveryDepth ==
    /\ \A i \in 1..Len(enqueued) : enqueued[i].depth <= maxDepth + 1
    /\ \A i \in 1..Len(discoveredUrls) :
         \E k \in 1..Len(enqueued) : enqueued[k].url = discoveredUrls[i]
    /\ pc = "done" =>
         /\ crawlResult = discoveredUrls
         /\ \A k \in 1..Len(enqueued) :
              enqueued[k].depth = maxDepth + 1 =>
                 /\ has(crawlResult, enqueued[k].url)
                 /\ ~has(visitedUrls, enqueued[k].url)

\* With maxDepth = 1 the crawl returned a URL found on a page of depth 1: it
\* was enqueued at depth 2 and never visited.
C24_Witness ==
    /\ pc = "done" /\ maxDepth = 1
    /\ \E k \in 1..Len(enqueued) :
         /\ enqueued[k].depth = 2
         /\ has(crawlResult, enqueued[k].url)
         /\ ~has(visitedUrls, enqueued[k].url)
         /\ \E i \in 1..Len(visitedUrls) :
              enqueued[enqueuedAt(visitedUrls[i])].depth = 1

\* What holds of the three collections of a crawl at every point.
crawlStateConsistent ==
    /\ Range(visitedUrls) \subseteq Range(discoveredUrls)
    /\ \A k \in 1..Len(queue) : has(discoveredUrls, queue[k].url)
    /\ pc = "fetch" => has(discoveredUrls, cur.url)
    /\ NoDuplicates(discoveredUrls)
    /\ discoveredUrls[1] = baseUrl
    /\ pc = "done" => crawlResult = discoveredUrls

\* A step of the crawl leaves the entries of discoveredUrls in place and
\* adds new ones after them.
discoveredGrows ==
    /\ Len(discoveredUrls') >= Len(discoveredUrls)
    /\ SubSeq(discoveredUrls', 1, Len(discoveredUrls)) = discoveredUrls

\* C25: at every point of a crawl visitedUrls is a subset of discoveredUrls
\* and every URL in the queue is in discoveredUrls; discoveredUrls only
\* grows, and the returned list is the final discoveredUrls in insertion order
\* with the seed first.
C25_CrawlState == []crawlStateConsistent /\ [][discoveredGrows]_vars

\* A crawl returned the seed and two links in the order they were found, with
\* the seed visited and the links still in the queue.
C25_Witness ==
    /\ pc = "done"
    /\ Len(crawlResult) = 3 /\ crawlResult[1] = baseUrl
    /\ visitedUrls = <<baseUrl>>
    /\ Len(queue) = 2
    /\ queue[1].url = crawlResult[2] /\ queue[2].url = crawlResult[3]

\* The progress events of the visits: all but the final one.
visitEvents == {i \in 1..Len(progress) : ~progress[i].completed}

\* C26: during one crawl every URL is enqueued at most once and fetched at
\* most once, so an entry taken from the queue is never skipped because its
\* URL is already in visitedUrls.
C26_AtMostOnce ==
    /\ \A i, j \in 1..Len(enqueued) : enqueued[i].url = enqueued[j].url => i = j
    /\ \A i, j \in visitEvents : progress[i].currentUrl = progress[j].currentUrl => i = j
    /\ Cardinality(visitEvents) = Len(visitedUrls)
    /\ \A k \in 1..Len(queue) : ~has(visitedUrls, queue[k].url)
    /\ pc = "fetch" => \A k \in 1..Len(queue) : queue[k].url # cur.url

\* A page fetched from the seed https://a.example/p held the anchor /p, which
\* resolves to the seed itself, and another link: the seed has one queue entry
\* and was fetched once, and the other link was enqueued and visited.
C26_Witness ==
    /\ baseUrl = <<"https:", "//", "a.example", "/p">>
    /\ <<"/p">> \in seenHrefs
    /\ linkOfAnchor(<<"/p">>, baseUrl, baseOrigin) = <<baseUrl>>
    /\ Len(visitedUrls) = 2 /\ Len(enqueued) = 2
    /\ Cardinality({i \in visitEvents : progress[i].currentUrl = baseUrl}) = 1

\* The page of the first violation of the pair, in scan order.
firstPageOf(violations, pair) ==
    violations[CHOOSE k \in 1..Len(violations) :
                  /\ pairOf(violations[k]) = pair
                  /\ \A j \in 1..(k - 1) : pairOf(violations[j]) # pair].pageUrl

\* C27: in every aggregate report each deduplicated violation has
\* occurrences = affectedPages.length >= 1, affectedPages holds no URL twice,
\* and its first element is the page of the violation's first occurrence in
\* scan order.
C27_OccurrencesArePages ==
    mpc = "done" =>
        \A k \in 1..Len(aggregate.violations) :
            LET v == aggregate.violations[k]
            IN  /\ v.occurrences = Len(v.affectedPages)
                /\ v.occurrences >= 1
                /\ NoDuplicates(v.affectedPages)
                /\ v.affectedPages[1] = firstPageOf(allViolations, pairOf(v))
                /\ v.pageUrl = v.affectedPages[1]

\* One URL was scanned twice and violated the same rule both times: the
\* entry names the page once, with occurrences = 1.
C27_Witness ==
    /\ mpc = "done" /\ Len(urls) = 2 /\ urls[1] = urls[2]
    /\ Len(allViolations) = 2
    /\ Len(aggregate.violations) = 1
    /\ aggregate.violations[1].affectedPages = <<urls[1]>>
    /\ aggregate.violations[1].occurrences = 1

\* C28: for every document on which scanDocument returns, each automated rule
\* that has a globalCheck, or a selector with a check, appears exactly once in
\* exactly one of passed and violations, and no other rule appears; so
\* totalChecks = |passed| + |violations| is the number of such rules, whatever
\* the document.
C28_EachRuleOnce ==
    scanned =>
        /\ \A i \in checkedRules :
             \/ entriesOf(report.passed, i) = 1 /\ entriesOf(report.violations, i) = 0
             \/ entriesOf(report.passed, i) = 0 /\ entriesOf(report.violations, i) = 1
        /\ ids(report.passed) \cup ids(report.violations) = checkedRules
        /\ report.totalChecks = Len(report.passed) + Len(report.violations)
        /\ report.totalChecks = Cardinality(checkedRules)

\* A catalogue of three automated rules with checks was run on a document
\* where one globalCheck returned an object without a passed field, one
\* returned true and the selector matched nothing: three entries, one each.
C28_Witness ==
    /\ scanned /\ entry = "scanDocument"
    /\ Cardinality(checkedRules) = 3
    /\ document[1] = <<"element">> /\ document[2] = <<"true">> /\ document[3] = <<>>
    /\ dgaRules[3].kind = "selector"
    /\ ids(report.violations) = {1} /\ ids(report.passed) = {2, 3}
    /\ report.totalChecks = 3

\* The summary of a page that added no check and scored 0: what lines 492-497
\* record from the report scanUrl gives for a failure.
failedSummary(summary) ==
    summary.score = 0 /\ summary.violationCount = 0 /\ summary.passedCount = 0

\* C29: a page whose fetch or parse failed, and no other page, has a summary
\* with score 0 and no checks; and when every URL given to scanMultipleUrls
\* failed, or the list was empty, the aggregate report has totalChecks 0, no
\* violations, score 100 and status 'Compliant'.
C29_AllPagesFail ==
    /\ (mpc = "loop" /\ scannedCount > 0) =>
          (failedSummary(pageResults[scannedCount]) <=> fetched # "ok")
    /\ (mpc = "done" /\ \A k \in 1..Len(pageResults) : failedSummary(pageResults[k])) =>
          /\ Len(aggregate.pageResults) = Len(urls)
          /\ aggregate.totalChecks = 0
          /\ aggregate.violations = <<>> /\ aggregate.passed = <<>>
          /\ aggregate.totalViolationsBeforeDedup = 0
          /\ aggregate.pagesWithViolations = 0
          /\ aggregate.score = 100
          /\ aggregate.status = "Compliant"

\* Two URLs were scanned against a catalogue with a checked rule and both
\* failed: two summaries of score 0 under an aggregate of score 100.
C29_Witness ==
    /\ mpc = "done" /\ Len(urls) = 2
    /\ Cardinality(checkedRules) >= 1
    /\ \A k \in 1..2 : aggregate.pageResults[k].score = 0
    /\ aggregate.totalChecks = 0
    /\ aggregate.score = 100 /\ aggregate.status = "Compliant"

\* A document without a <nav> element that has an element with
\* role="navigation" or role="menu".
navigationByRole ==
    /\ \A e \in markup.elements : e.tag # "nav"
    /\ \E e \in markup.elements : e.role \in {"navigation", "menu"}

\* C30: a rule with a globalCheck is recorded in passed whenever the check
\* reports success with a truthy value: for a document that has no <nav>
\* element but has an element with role="navigation" or role="menu", the
\* report has rule 49 in passed and not in violations.
C30_TruthyResultPasses ==
    (spc = "returned" /\ dgaRules = CatalogueRules /\ navigationByRole) =>
        /\ "49" \in ids(report.passed)
        /\ "49" \notin ids(report.violations)

====
